---- MODULE Spec2Model ----
(***************************************************************************)
(* State-machine model of reset_database_online.py: the DatabaseReset      *)
(* class (connect with retry, close, backup_data, truncate_all_tables,     *)
(* create_admin_user, reset_complete, reset_data_only), confirm_action and *)
(* main.  One action per awaited step or handler.  Strings are sequences   *)
(* of one-character strings so that lower(), strip(), startswith(),        *)
(* replace() and re.match() are computed as Python computes them.          *)
(***************************************************************************)
EXTENDS Integers, Sequences, FiniteSets, TLC

(* ------------------------------ bounds --------------------------------- *)
\* rows each existing table holds before the run: 0..MaxRows
MaxRows == 1
\* connect(retries, ...) is explored for retries in 0..MaxRetries
MaxRetries == 4
\* connect(..., base_delay) is explored for base_delay in 0..MaxBaseDelay (half seconds)
MaxBaseDelay == 3

(* ------------------------- program constants --------------------------- *)
\* def connect(self, retries: int = 3, ...)
DefaultRetries == 3
\* def connect(..., base_delay: float = 1.5), counted in half seconds
DefaultBaseDelay == 3

(* ----------------------------- literals -------------------------------- *)
S_usuarios == <<"u", "s", "u", "a", "r", "i", "o", "s">>
S_produtos == <<"p", "r", "o", "d", "u", "t", "o", "s">>
S_clientes == <<"c", "l", "i", "e", "n", "t", "e", "s">>
S_vendas == <<"v", "e", "n", "d", "a", "s">>
S_itens_venda == <<"i", "t", "e", "n", "s", "_", "v", "e", "n", "d", "a">>
S_alembic_version == <<"a", "l", "e", "m", "b", "i", "c", "_", "v", "e", "r", "s", "i", "o", "n">>
S_check == <<"c", "h", "e", "c", "k">>
S_complete == <<"c", "o", "m", "p", "l", "e", "t", "e">>
S_data == <<"d", "a", "t", "a">>
S_CONFIRMO == <<"C", "O", "N", "F", "I", "R", "M", "O">>
S_SIM == <<"S", "I", "M">>
S_Neotrix == <<"N", "e", "o", "t", "r", "i", "x">>
S_842384 == <<"8", "4", "2", "3", "8", "4">>
P_asyncpg == <<"p", "o", "s", "t", "g", "r", "e", "s", "q", "l", "+", "a", "s", "y", "n", "c", "p", "g", ":", "/", "/">>
P_psycopg2 == <<"p", "o", "s", "t", "g", "r", "e", "s", "q", "l", "+", "p", "s", "y", "c", "o", "p", "g", "2", ":", "/", "/">>
P_plain == <<"p", "o", "s", "t", "g", "r", "e", "s", "q", "l", ":", "/", "/">>

UpperChars == <<"A", "B", "C", "D", "E", "F", "G", "H", "I", "J", "K", "L", "M", "N", "O", "P", "Q", "R", "S", "T", "U", "V", "W", "X", "Y", "Z">>
LowerChars == <<"a", "b", "c", "d", "e", "f", "g", "h", "i", "j", "k", "l", "m", "n", "o", "p", "q", "r", "s", "t", "u", "v", "w", "x", "y", "z">>
DigitChars == <<"0", "1", "2", "3", "4", "5", "6", "7", "8", "9">>

Range(s) == {s[i] : i \in DOMAIN s}

(* --------------------------- str.lower() -------------------------------- *)
LowerMap ==
    [c \in Range(UpperChars) |->
        LowerChars[CHOOSE i \in DOMAIN UpperChars : UpperChars[i] = c]]

LowerChar(c) == IF c \in DOMAIN LowerMap THEN LowerMap[c] ELSE c

Lower(s) == [i \in DOMAIN s |-> LowerChar(s[i])]

(* --------------------------- str.strip() -------------------------------- *)
Whitespace == {" ", "\t", "\n", "\r"}

RECURSIVE LStrip(_)
LStrip(s) ==
    IF s # <<>> /\ Head(s) \in Whitespace THEN LStrip(Tail(s)) ELSE s

RECURSIVE RStrip(_)
RStrip(s) ==
    IF s # <<>> /\ s[Len(s)] \in Whitespace
    THEN RStrip(SubSeq(s, 1, Len(s) - 1))
    ELSE s

Strip(s) == RStrip(LStrip(s))

(* ------------------ str.startswith() and str.replace() ------------------ *)
StartsWith(s, p) == Len(s) >= Len(p) /\ SubSeq(s, 1, Len(p)) = p

\* every non-overlapping occurrence of old, scanning left to right
RECURSIVE Replace(_, _, _)
Replace(s, old, new) ==
    IF s = <<>> THEN <<>>
    ELSE IF StartsWith(s, old)
         THEN new \o Replace(SubSeq(s, Len(old) + 1, Len(s)), old, new)
         ELSE <<Head(s)>> \o Replace(Tail(s), old, new)

(* -------- re.match(r"^[A-Za-z_][A-Za-z0-9_]*$", table or "") ------------ *)
IdentStart == Range(UpperChars) \cup Range(LowerChars) \cup {"_"}
IdentRest == IdentStart \cup Range(DigitChars)

\* the scan of [A-Za-z0-9_]* from position i, then $: the end of the string,
\* or just before a newline that ends the string
RECURSIVE ReRest(_, _)
ReRest(s, i) ==
    IF i > Len(s) THEN TRUE
    ELSE IF s[i] \in IdentRest THEN ReRest(s, i + 1)
    ELSE s[i] = "\n" /\ i = Len(s)

\* variant: the name check lets every name through
ReMatchAny(s) == TRUE

ReMatchIdent(s) == Len(s) >= 1 /\ s[1] \in IdentStart /\ ReRest(s, 2)

(* ------------------------------ state ---------------------------------- *)
VARIABLES
    argv,          \* sys.argv[1:], a sequence of strings
    env,           \* [public, internal]: os.getenv results, <<>> for None, <<s>> for a value
    catalog,       \* pg_tables of schema public, in the order the query returns them
    rows,          \* table name -> set of rows, for every table of the catalog
    pc,            \* position of the single thread of control
    action,        \* main's local: sys.argv[1].lower()
    database_url,  \* self.database_url
    hasConn,       \* hasattr(self, 'conn')
    connOpen,      \* the server-side connection is open
    retries,       \* connect's parameter
    base_delay,    \* connect's parameter, in half seconds
    attempt,       \* connect's loop variable
    connResult,    \* what connect returned: "none" (not yet), "true", "false"
    sleeps,        \* delays passed to asyncio.sleep, in order
    gate,          \* confirm_action: "idle", "unconfirmed", "first-confirmed", "confirmed", "aborted"
    inputs,        \* strings returned by input(), in order
    bidx,          \* backup_data: index of the table being fetched
    backup,        \* backup_data's local dict backup_data
    backupResult,  \* what backup_data returned: <<>> (not yet) or <<dict>>
    table_names,   \* truncate_all_tables' local list
    tidx,          \* truncate_all_tables: index of the table being truncated
    log,           \* every database call issued, in order: [op, arg, ok]
    out,           \* messages printed, in order
    closeCalls,    \* number of calls of DatabaseReset.close
    raised         \* functions an exception has propagated out of

vars == <<argv, env, catalog, rows, pc, action, database_url, hasConn, connOpen,
          retries, base_delay, attempt, connResult, sleeps, gate, inputs, bidx,
          backup, backupResult, table_names, tidx, log, out, closeCalls, raised>>

dbVars == <<catalog, rows>>
connectVars == <<retries, base_delay, attempt, connResult, sleeps>>
gateVars == <<gate, inputs>>
backupVars == <<bidx, backup, backupResult>>
truncVars == <<table_names, tidx>>

Call(op, arg, ok) == [op |-> op, arg |-> arg, ok |-> ok]
EmptyDict == [t \in {} |-> {}]

(* ------------------------------ inputs --------------------------------- *)
\* command lines: none, the three actions, other spellings, an unknown action
ArgvPool ==
    { <<>>, <<S_check>>, <<S_complete>>, <<S_data>>,
      << <<"C", "H", "E", "C", "K">> >>, << <<"D", "a", "t", "a">> >>,
      << <<"d", "r", "o", "p">> >> }

HostA == <<"u", "@", "a", "/", "d">>
HostB == <<"u", "@", "b", "/", "d">>

\* DATABASE_PUBLIC_URL / DATABASE_URL: unset, set but empty, set
EnvPool ==
    { [public |-> <<>>, internal |-> <<>>],
      [public |-> << <<>> >>, internal |-> <<>>],
      [public |-> <<>>, internal |-> <<P_psycopg2 \o HostB>>],
      [public |-> <<P_asyncpg \o HostA>>, internal |-> <<P_plain \o HostB>>],
      [public |-> << <<>> >>, internal |-> <<P_plain \o HostB>>] }

\* what the operator may type at a prompt
InputPool ==
    { S_CONFIRMO, S_SIM, <<>>,
      <<"c", "o", "n", "f", "i", "r", "m", "o">>,
      <<" ", "C", "O", "N", "F", "I", "R", "M", "O", " ">>,
      <<"S", "I", "M", "\t">>,
      <<"s", "i", "m">> }

\* public schemas: empty, the application's, with the migration table, with
\* names that are not plain identifiers, without usuarios
CatalogPool ==
    { <<>>,
      <<S_usuarios, S_produtos, S_clientes, S_vendas, S_itens_venda>>,
      <<S_alembic_version, S_vendas, S_clientes, S_produtos, S_usuarios>>,
      <<S_usuarios, <<"l", "o", "g", "-", "2", "4">>, S_produtos, S_clientes, S_vendas>>,
      <<S_alembic_version>>,
      << <<"2", "f", "a">>, S_produtos, <<"t", "m", "p", "\n">> >> }

OldHash == <<"p", "b", "k", "d", "f", "2", "$", "o", "l", "d">>

\* row i of a table before the run; the first user is a previous Neotrix admin
InitialRow(t, i) ==
    IF t = S_usuarios
    THEN [id |-> i,
          usuario |-> IF i = 1 THEN S_Neotrix ELSE <<"u", DigitChars[i]>>,
          is_admin |-> (i = 1),
          senha_hash |-> OldHash]
    ELSE [id |-> i]

InitialRows(cat, n) == [t \in Range(cat) |-> {InitialRow(t, i) : i \in 1..n}]

(* --------------------------- DatabaseReset ----------------------------- *)
Truthy(v) == v # <<>> /\ v[1] # <<>>

\* public_url or internal_url; <<>> stands for None and for ''
ResolveUrl(e) ==
    IF Truthy(e.public) THEN e.public[1]
    ELSE IF Truthy(e.internal) THEN e.internal[1]
    ELSE <<>>

NormalizeUrl(u) ==
    LET a == IF StartsWith(u, P_asyncpg) THEN Replace(u, P_asyncpg, P_plain) ELSE u
    IN  IF StartsWith(a, P_psycopg2) THEN Replace(a, P_psycopg2, P_plain) ELSE a

Init ==
    /\ argv \in ArgvPool
    /\ env \in EnvPool
    /\ catalog \in CatalogPool
    /\ \E n \in 0..MaxRows : rows = InitialRows(catalog, n)
    /\ pc = "start"
    /\ action = <<>>
    /\ database_url = <<>>
    /\ hasConn = FALSE
    /\ connOpen = FALSE
    /\ retries = DefaultRetries
    /\ base_delay = DefaultBaseDelay
    /\ attempt = 0
    /\ connResult = "none"
    /\ sleeps = <<>>
    /\ gate = "idle"
    /\ inputs = <<>>
    /\ bidx = 0
    /\ backup = EmptyDict
    /\ backupResult = <<>>
    /\ table_names = <<>>
    /\ tidx = 0
    /\ log = <<>>
    /\ out = <<>>
    /\ closeCalls = 0
    /\ raised = {}

(* ------------------------------- main ----------------------------------- *)
\* len(sys.argv) < 2: usage, return
MainUsage ==
    /\ pc = "start"
    /\ Len(argv) < 1
    /\ out' = Append(out, "usage")
    /\ pc' = "done"
    /\ UNCHANGED <<argv, env, dbVars, action, database_url, hasConn, connOpen,
                   connectVars, gateVars, backupVars, truncVars, log, closeCalls, raised>>

\* variant: __init__ does not check that a connection string was found
MainConstructUnchecked ==
    /\ pc = "start"
    /\ Len(argv) >= 1
    /\ ResolveUrl(env) = <<>>
    /\ action' = Lower(argv[1])
    /\ database_url' = ResolveUrl(env)
    /\ attempt' = 1
    /\ pc' = "connect"
    /\ UNCHANGED <<argv, env, dbVars, hasConn, connOpen, retries, base_delay,
                   connResult, sleeps, gateVars, backupVars, truncVars, log, out,
                   closeCalls, raised>>

\* DatabaseReset() raises ValueError, outside main's try
MainConstructFail ==
    /\ pc = "start"
    /\ Len(argv) >= 1
    /\ ResolveUrl(env) = <<>>
    /\ action' = Lower(argv[1])
    /\ raised' = raised \cup {"__init__", "main"}
    /\ pc' = "crashed"
    /\ UNCHANGED <<argv, env, dbVars, database_url, hasConn, connOpen, connectVars,
                   gateVars, backupVars, truncVars, log, out, closeCalls>>

\* DatabaseReset() succeeds; main enters the try and calls connect()
MainConstruct ==
    /\ pc = "start"
    /\ Len(argv) >= 1
    /\ ResolveUrl(env) # <<>>
    /\ action' = Lower(argv[1])
    /\ database_url' = NormalizeUrl(ResolveUrl(env))
    /\ attempt' = 1
    /\ pc' = "connect"
    /\ UNCHANGED <<argv, env, dbVars, hasConn, connOpen, retries, base_delay,
                   connResult, sleeps, gateVars, backupVars, truncVars, log, out,
                   closeCalls, raised>>

(* ------------------------------ connect --------------------------------- *)
\* variant: the wait is not skipped after the last attempt
SleepsAfterEvery(k, r) == k <= r

\* if attempt < retries
SleepsAfter(k, r) == k < r

\* delay = base_delay * attempt
Backoff(base, k) == base * k

\* variant: a successful attempt does not leave the retry loop
ConnectOkKeepsTrying ==
    /\ pc = "connect"
    /\ attempt <= retries
    /\ log' = Append(log, Call("connect", database_url, TRUE))
    /\ hasConn' = TRUE
    /\ connOpen' = TRUE
    /\ out' = Append(out, "connected")
    /\ connResult' = "true"
    /\ IF attempt < retries
       THEN /\ attempt' = attempt + 1
            /\ pc' = "connect"
       ELSE /\ attempt' = attempt
            /\ pc' = "after_connect"
    /\ UNCHANGED <<argv, env, dbVars, action, database_url, retries, base_delay,
                   sleeps, gateVars, backupVars, truncVars, closeCalls, raised>>

\* asyncpg.connect succeeds: return True
ConnectOk ==
    /\ pc = "connect"
    /\ attempt <= retries
    /\ log' = Append(log, Call("connect", database_url, TRUE))
    /\ hasConn' = TRUE
    /\ connOpen' = TRUE
    /\ out' = Append(out, "connected")
    /\ connResult' = "true"
    /\ pc' = "after_connect"
    /\ UNCHANGED <<argv, env, dbVars, action, database_url, retries, base_delay,
                   attempt, sleeps, gateVars, backupVars, truncVars, closeCalls, raised>>

\* asyncpg.connect raises: report, sleep unless this was the last attempt
ConnectFail ==
    /\ pc = "connect"
    /\ attempt <= retries
    /\ log' = Append(log, Call("connect", database_url, FALSE))
    /\ out' = Append(out, "connect_error")
    /\ IF SleepsAfter(attempt, retries)
       THEN /\ sleeps' = Append(sleeps, Backoff(base_delay, attempt))
            /\ pc' = "sleep"
            /\ attempt' = attempt
       ELSE /\ sleeps' = sleeps
            /\ pc' = "connect"
            /\ attempt' = attempt + 1
    /\ UNCHANGED <<argv, env, dbVars, action, database_url, hasConn, connOpen,
                   retries, base_delay, connResult, gateVars, backupVars, truncVars,
                   closeCalls, raised>>

\* asyncio.sleep returns: next iteration
ConnectWake ==
    /\ pc = "sleep"
    /\ attempt' = attempt + 1
    /\ pc' = "connect"
    /\ UNCHANGED <<argv, env, dbVars, action, database_url, hasConn, connOpen,
                   retries, base_delay, connResult, sleeps, gateVars, backupVars,
                   truncVars, log, out, closeCalls, raised>>

\* the loop is exhausted: return False
ConnectGiveUp ==
    /\ pc = "connect"
    /\ attempt > retries
    /\ out' = Append(out, "connect_failed")
    /\ connResult' = "false"
    /\ pc' = "after_connect"
    /\ UNCHANGED <<argv, env, dbVars, action, database_url, hasConn, connOpen,
                   retries, base_delay, attempt, sleeps, gateVars, backupVars,
                   truncVars, log, closeCalls, raised>>

(* --------------------------- main: dispatch ----------------------------- *)
\* variant: the chain ends in the data branch instead of the error branch
WorkflowOfDefaultData(a) ==
    IF a = S_check THEN "check"
    ELSE IF a = S_complete THEN "complete"
    ELSE "data"

\* the if / elif / else chain on action
WorkflowOf(a) ==
    IF a = S_check THEN "check"
    ELSE IF a = S_complete THEN "complete"
    ELSE IF a = S_data THEN "data"
    ELSE "unknown"

\* variant: the result of connect is not tested and main goes on to dispatch
MainConnectFailedIgnored ==
    /\ pc = "after_connect"
    /\ connResult = "false"
    /\ IF WorkflowOf(action) \in {"complete", "data"}
       THEN /\ gate' = "unconfirmed"
            /\ pc' = "confirm1"
       ELSE /\ gate' = gate
            /\ pc' = "finally"
    /\ UNCHANGED <<argv, env, dbVars, action, database_url, hasConn, connOpen,
                   connectVars, inputs, backupVars, truncVars, log, out,
                   closeCalls, raised>>

\* if not await reset_db.connect(): return
MainConnectFailed ==
    /\ pc = "after_connect"
    /\ connResult = "false"
    /\ pc' = "finally"
    /\ UNCHANGED <<argv, env, dbVars, action, database_url, hasConn, connOpen,
                   connectVars, gateVars, backupVars, truncVars, log, out,
                   closeCalls, raised>>

\* variant: the check branch is an if of its own and control falls into the
\* destructive branch after it
MainCheckFallsThrough ==
    /\ pc = "after_connect"
    /\ connResult = "true"
    /\ WorkflowOf(action) = "check"
    /\ gate' = "unconfirmed"
    /\ out' = Append(Append(out, "check_ok"), "warning")
    /\ pc' = "confirm1"
    /\ UNCHANGED <<argv, env, dbVars, action, database_url, hasConn, connOpen,
                   connectVars, inputs, backupVars, truncVars, log, closeCalls, raised>>

\* action == 'check'
MainCheck ==
    /\ pc = "after_connect"
    /\ connResult = "true"
    /\ WorkflowOf(action) = "check"
    /\ out' = Append(out, "check_ok")
    /\ pc' = "finally"
    /\ UNCHANGED <<argv, env, dbVars, action, database_url, hasConn, connOpen,
                   connectVars, gateVars, backupVars, truncVars, log, closeCalls, raised>>

\* action == 'complete' or 'data': confirm_action is called and prompts
MainAskConfirm ==
    /\ pc = "after_connect"
    /\ connResult = "true"
    /\ WorkflowOf(action) \in {"complete", "data"}
    /\ gate' = "unconfirmed"
    /\ out' = Append(out, "warning")
    /\ pc' = "confirm1"
    /\ UNCHANGED <<argv, env, dbVars, action, database_url, hasConn, connOpen,
                   connectVars, inputs, backupVars, truncVars, log, closeCalls, raised>>

\* else: action not recognised
MainUnknown ==
    /\ pc = "after_connect"
    /\ connResult = "true"
    /\ WorkflowOf(action) = "unknown"
    /\ out' = Append(out, "unrecognized")
    /\ pc' = "finally"
    /\ UNCHANGED <<argv, env, dbVars, action, database_url, hasConn, connOpen,
                   connectVars, gateVars, backupVars, truncVars, log, closeCalls, raised>>

(* ------------------ reset_complete / reset_data_only -------------------- *)
\* the methods the try block of reset_complete awaits, in order
ResetComplete == <<"backup_data", "truncate_all_tables", "create_admin_user">>

\* variant: the data workflow goes straight to the truncation
ResetDataOnlyNoBackup == <<"truncate_all_tables", "create_admin_user">>

\* the methods the try block of reset_data_only awaits, in order
ResetDataOnly == <<"backup_data", "truncate_all_tables", "create_admin_user">>

\* main calls reset_complete for 'complete' and reset_data_only for 'data'
ResetBody(w) == IF w = "complete" THEN ResetComplete ELSE ResetDataOnly

\* where a method starts
EntryPc(m) ==
    IF m = "backup_data" THEN "backup"
    ELSE IF m = "truncate_all_tables" THEN "trunc_catalog"
    ELSE "seed"

\* where the workflow starts
ResetEntry == EntryPc(ResetBody(WorkflowOf(action))[1])

\* where control goes when method m of the running workflow returns: to the
\* next method of the body, or out of the workflow and into main's finally
PcAfter(m) ==
    LET body == ResetBody(WorkflowOf(action))
        i == CHOOSE k \in DOMAIN body : body[k] = m
    IN  IF i < Len(body) THEN EntryPc(body[i + 1]) ELSE "finally"

\* what the success message of the workflow is
SuccessMessage == IF WorkflowOf(action) = "complete" THEN "reset_ok" ELSE "data_ok"

\* the summary printed when the last method of the body has returned
ReturnMessages(m) == IF PcAfter(m) = "finally" THEN <<SuccessMessage>> ELSE <<>>

(* --------------------------- confirm_action ----------------------------- *)
\* variant: the first token is compared without regard to case
FirstTokenAnyCase(inp) == Lower(Strip(inp)) = Lower(S_CONFIRMO)

\* confirm1 = input(...).strip(); confirm1 != 'CONFIRMO' cancels
FirstTokenOk(inp) == Strip(inp) = S_CONFIRMO

\* confirm2 = input(...).strip(); confirm2 != 'SIM' cancels
SecondTokenOk(inp) == Strip(inp) = S_SIM

\* variant: the result of confirm_action is ignored
RunsResetAlways(confirmed) == TRUE

\* main: if confirm_action(...): await reset_db.reset_...()
RunsReset(confirmed) == confirmed

\* variant: the second prompt is shown whatever the first input was
ReadConfirm1ReadsOn ==
    /\ pc = "confirm1"
    /\ \E inp \in InputPool :
        /\ inputs' = Append(inputs, inp)
        /\ gate' = IF FirstTokenOk(inp) THEN "first-confirmed" ELSE gate
    /\ pc' = "confirm2"
    /\ UNCHANGED <<argv, env, dbVars, action, database_url, hasConn, connOpen,
                   connectVars, backupVars, truncVars, log, out, closeCalls, raised>>

\* the first prompt: a mismatch prints the cancellation and returns False
ReadConfirm1 ==
    /\ pc = "confirm1"
    /\ \E inp \in InputPool :
        /\ inputs' = Append(inputs, inp)
        /\ IF FirstTokenOk(inp)
           THEN /\ gate' = "first-confirmed"
                /\ out' = out
                /\ pc' = "confirm2"
           ELSE /\ gate' = "aborted"
                /\ out' = Append(out, "cancelled")
                /\ pc' = IF RunsReset(FALSE) THEN ResetEntry ELSE "finally"
    /\ bidx' = IF pc' = "backup" THEN 1 ELSE bidx
    /\ UNCHANGED <<argv, env, dbVars, action, database_url, hasConn, connOpen,
                   connectVars, backup, backupResult, truncVars, log, closeCalls, raised>>

\* on the second token the gate returns; a confirmed gate makes main call
\* reset_complete / reset_data_only, which starts backup_data
ReadConfirm2 ==
    /\ pc = "confirm2"
    /\ \E inp \in InputPool :
        /\ inputs' = Append(inputs, inp)
        /\ IF SecondTokenOk(inp)
           THEN /\ gate' = "confirmed"
                /\ out' = Append(out, "confirmation_received")
                /\ pc' = IF RunsReset(TRUE) THEN ResetEntry ELSE "finally"
           ELSE /\ gate' = "aborted"
                /\ out' = Append(out, "cancelled")
                /\ pc' = IF RunsReset(FALSE) THEN ResetEntry ELSE "finally"
    /\ bidx' = IF pc' = "backup" THEN 1 ELSE bidx
    /\ UNCHANGED <<argv, env, dbVars, action, database_url, hasConn, connOpen,
                   connectVars, backup, backupResult, truncVars, log, closeCalls, raised>>

\* input() raises EOFError (standard input closed): the exception leaves
\* confirm_action and is caught by main
ConfirmEOF ==
    /\ pc \in {"confirm1", "confirm2"}
    /\ raised' = raised \cup {"confirm_action"}
    /\ pc' = "main_except"
    /\ UNCHANGED <<argv, env, dbVars, action, database_url, hasConn, connOpen,
                   connectVars, gateVars, backupVars, truncVars, log, out, closeCalls>>

(* ----------------------------- backup_data ------------------------------ *)
BackupTables == <<S_usuarios, S_produtos, S_clientes, S_vendas>>

\* what backup_data returns after its last fetch
BackupReturn(b) == b

\* what backup_data returns from its except clause
BackupOnError(b) == EmptyDict

\* after backup_data returns, truncate_all_tables queries the catalog
BackupFetchOk ==
    /\ pc = "backup"
    /\ LET t == BackupTables[bidx]
           b == (t :> rows[t]) @@ backup
       IN  /\ t \in DOMAIN rows
           /\ log' = Append(log, Call("fetch", t, TRUE))
           /\ backup' = b
           /\ IF bidx = Len(BackupTables)
              THEN /\ backupResult' = <<BackupReturn(b)>>
                   /\ pc' = PcAfter("backup_data")
                   /\ bidx' = bidx
                   /\ out' = Append(out, "saved") \o ReturnMessages("backup_data")
              ELSE /\ backupResult' = backupResult
                   /\ pc' = "backup"
                   /\ bidx' = bidx + 1
                   /\ out' = Append(out, "saved")
    /\ UNCHANGED <<argv, env, dbVars, action, database_url, hasConn, connOpen,
                   connectVars, gateVars, truncVars, closeCalls, raised>>

\* variant: backup_data lets the error of a fetch escape
BackupFetchFailRaises ==
    /\ pc = "backup"
    /\ log' = Append(log, Call("fetch", BackupTables[bidx], FALSE))
    /\ out' = Append(out, "backup_error")
    /\ raised' = raised \cup {"backup_data"}
    /\ pc' = "reset_except"
    /\ UNCHANGED <<argv, env, dbVars, action, database_url, hasConn, connOpen,
                   connectVars, gateVars, backupVars, truncVars, closeCalls>>

\* a fetch raises (the table does not exist, or the statement fails)
BackupFetchFail ==
    /\ pc = "backup"
    /\ log' = Append(log, Call("fetch", BackupTables[bidx], FALSE))
    /\ out' = Append(out, "backup_error") \o ReturnMessages("backup_data")
    /\ backupResult' = <<BackupOnError(backup)>>
    /\ pc' = PcAfter("backup_data")
    /\ UNCHANGED <<argv, env, dbVars, action, database_url, hasConn, connOpen,
                   connectVars, gateVars, bidx, backup, truncVars, closeCalls, raised>>

(* ------------------------- truncate_all_tables -------------------------- *)
\* table_names = [t for t in table_names if t not in ('alembic_version',)]
ExcludeMigrations(names) == SelectSeq(names, LAMBDA t : t # S_alembic_version)

\* the for loop from position i: entries that fail re.match are skipped
RECURSIVE NextTable(_, _)
NextTable(names, i) ==
    IF i > Len(names) THEN i
    ELSE IF ReMatchIdent(names[i]) THEN i
    ELSE NextTable(names, i + 1)

\* TRUNCATE ... CASCADE also empties the tables that reference the table:
\* vendas references usuarios, itens_venda references vendas
CascadeSet(t) ==
    IF t = S_usuarios THEN {S_usuarios, S_vendas, S_itens_venda}
    ELSE IF t = S_vendas THEN {S_vendas, S_itens_venda}
    ELSE {t}

\* the catalog query succeeds; the loop runs up to its first TRUNCATE
TruncCatalogOk ==
    /\ pc = "trunc_catalog"
    /\ log' = Append(log, Call("catalog", <<>>, TRUE))
    /\ IF catalog = <<>>
       THEN /\ table_names' = catalog
            /\ tidx' = tidx
            /\ out' = Append(out, "no_tables") \o ReturnMessages("truncate_all_tables")
            /\ pc' = PcAfter("truncate_all_tables")
       ELSE LET names == ExcludeMigrations(catalog)
                first == NextTable(names, 1)
            IN  /\ table_names' = names
                /\ tidx' = first
                /\ IF first > Len(names)
                   THEN /\ out' = Append(out, "all_removed")
                                      \o ReturnMessages("truncate_all_tables")
                        /\ pc' = PcAfter("truncate_all_tables")
                   ELSE /\ out' = out
                        /\ pc' = "truncate"
    /\ UNCHANGED <<argv, env, dbVars, action, database_url, hasConn, connOpen,
                   connectVars, gateVars, backupVars, closeCalls, raised>>

\* the catalog query raises
TruncCatalogFail ==
    /\ pc = "trunc_catalog"
    /\ log' = Append(log, Call("catalog", <<>>, FALSE))
    /\ pc' = "trunc_except"
    /\ UNCHANGED <<argv, env, dbVars, action, database_url, hasConn, connOpen,
                   connectVars, gateVars, backupVars, truncVars, out, closeCalls, raised>>

\* one TRUNCATE succeeds; the loop runs on to the next one or ends
TruncateOk ==
    /\ pc = "truncate"
    /\ LET t == table_names[tidx]
           next == NextTable(table_names, tidx + 1)
       IN  /\ log' = Append(log, Call("truncate", t, TRUE))
           /\ rows' = [u \in DOMAIN rows |-> IF u \in CascadeSet(t) THEN {} ELSE rows[u]]
           /\ tidx' = next
           /\ IF next > Len(table_names)
              THEN /\ out' = Append(Append(out, "table_ok"), "all_removed")
                                 \o ReturnMessages("truncate_all_tables")
                   /\ pc' = PcAfter("truncate_all_tables")
              ELSE /\ out' = Append(out, "table_ok")
                   /\ pc' = "truncate"
    /\ UNCHANGED <<argv, env, catalog, action, database_url, hasConn, connOpen,
                   connectVars, gateVars, backupVars, table_names, closeCalls, raised>>

\* one TRUNCATE raises
TruncateFail ==
    /\ pc = "truncate"
    /\ log' = Append(log, Call("truncate", table_names[tidx], FALSE))
    /\ pc' = "trunc_except"
    /\ UNCHANGED <<argv, env, dbVars, action, database_url, hasConn, connOpen,
                   connectVars, gateVars, backupVars, truncVars, out, closeCalls, raised>>

\* variant: the handler logs and does not re-raise
TruncExceptSwallow ==
    /\ pc = "trunc_except"
    /\ out' = Append(out, "truncate_error")
    /\ pc' = "seed"
    /\ UNCHANGED <<argv, env, dbVars, action, database_url, hasConn, connOpen,
                   connectVars, gateVars, backupVars, truncVars, log, closeCalls, raised>>

\* except Exception as e: print; raise
TruncExcept ==
    /\ pc = "trunc_except"
    /\ out' = Append(out, "truncate_error")
    /\ raised' = raised \cup {"truncate_all_tables"}
    /\ pc' = "reset_except"
    /\ UNCHANGED <<argv, env, dbVars, action, database_url, hasConn, connOpen,
                   connectVars, gateVars, backupVars, truncVars, log, closeCalls>>

\* reset_complete / reset_data_only: except Exception as e: print; raise
ResetExcept ==
    /\ pc = "reset_except"
    /\ out' = Append(out, "reset_error")
    /\ raised' = raised \cup {"reset"}
    /\ pc' = "main_except"
    /\ UNCHANGED <<argv, env, dbVars, action, database_url, hasConn, connOpen,
                   connectVars, gateVars, backupVars, truncVars, log, closeCalls>>

(* -------------------------- create_admin_user --------------------------- *)
SaltPool == {<<"a">>, <<"b">>}

\* werkzeug's generate_password_hash: method$salt$digest
PwHash(pw, salt) ==
    <<"s", "c", "r", "y", "p", "t", "$">> \o salt \o <<"$">>
        \o [i \in 1..Len(pw) |-> pw[Len(pw) + 1 - i]]

AdminRow(salt) ==
    [id |-> 0, usuario |-> S_Neotrix, is_admin |-> TRUE,
     senha_hash |-> PwHash(S_842384, salt)]

\* the INSERT can succeed when usuarios exists and the login is free (UNIQUE)
CanInsert(r) ==
    /\ S_usuarios \in DOMAIN rows
    /\ \A x \in rows[S_usuarios] : x.usuario # r.usuario

\* the INSERT succeeds; the workflow then reports success and returns to main
SeedInsertOk ==
    /\ pc = "seed"
    /\ \E salt \in SaltPool :
        /\ CanInsert(AdminRow(salt))
        /\ rows' = [rows EXCEPT ![S_usuarios] = @ \cup {AdminRow(salt)}]
    /\ log' = Append(log, Call("insert", S_usuarios, TRUE))
    /\ out' = Append(out, "admin_created") \o ReturnMessages("create_admin_user")
    /\ pc' = PcAfter("create_admin_user")
    /\ UNCHANGED <<argv, env, catalog, action, database_url, hasConn, connOpen,
                   connectVars, gateVars, backupVars, truncVars, closeCalls, raised>>

\* variant: the handler of create_admin_user re-raises
SeedInsertFailRaises ==
    /\ pc = "seed"
    /\ log' = Append(log, Call("insert", S_usuarios, FALSE))
    /\ out' = Append(out, "admin_error")
    /\ raised' = raised \cup {"create_admin_user"}
    /\ pc' = "reset_except"
    /\ UNCHANGED <<argv, env, dbVars, action, database_url, hasConn, connOpen,
                   connectVars, gateVars, backupVars, truncVars, closeCalls>>

\* the INSERT raises: the error is printed and swallowed, the workflow
\* reports success all the same
SeedInsertFail ==
    /\ pc = "seed"
    /\ log' = Append(log, Call("insert", S_usuarios, FALSE))
    /\ out' = Append(out, "admin_error") \o ReturnMessages("create_admin_user")
    /\ pc' = PcAfter("create_admin_user")
    /\ UNCHANGED <<argv, env, dbVars, action, database_url, hasConn, connOpen,
                   connectVars, gateVars, backupVars, truncVars, closeCalls, raised>>

\* the import of werkzeug.security (or the hashing) raises before any INSERT
SeedImportFail ==
    /\ pc = "seed"
    /\ out' = Append(out, "admin_error") \o ReturnMessages("create_admin_user")
    /\ pc' = PcAfter("create_admin_user")
    /\ UNCHANGED <<argv, env, dbVars, action, database_url, hasConn, connOpen,
                   connectVars, gateVars, backupVars, truncVars, log, closeCalls, raised>>

(* ----------------------- main: except / finally ------------------------- *)
\* variant: close is the last statement of the try body, not a finally clause
MainExceptNoFinally ==
    /\ pc = "main_except"
    /\ out' = Append(out, "general_error")
    /\ pc' = "done"
    /\ UNCHANGED <<argv, env, dbVars, action, database_url, hasConn, connOpen,
                   connectVars, gateVars, backupVars, truncVars, log, closeCalls, raised>>

\* except Exception as e: print
MainExcept ==
    /\ pc = "main_except"
    /\ out' = Append(out, "general_error")
    /\ pc' = "finally"
    /\ UNCHANGED <<argv, env, dbVars, action, database_url, hasConn, connOpen,
                   connectVars, gateVars, backupVars, truncVars, log, closeCalls, raised>>

\* finally: await reset_db.close()
MainFinally ==
    /\ pc = "finally"
    /\ closeCalls' = closeCalls + 1
    /\ IF hasConn
       THEN /\ log' = Append(log, Call("close", <<>>, TRUE))
            /\ connOpen' = FALSE
            /\ out' = Append(out, "closed")
       ELSE UNCHANGED <<log, connOpen, out>>
    /\ pc' = "done"
    /\ UNCHANGED <<argv, env, dbVars, action, database_url, hasConn, connectVars,
                   gateVars, backupVars, truncVars, raised>>

(* --------------------------- specifications ----------------------------- *)
Next ==
    \/ MainUsage
    \/ MainConstructFail
    \/ MainConstruct
    \/ ConnectOk
    \/ ConnectFail
    \/ ConnectWake
    \/ ConnectGiveUp
    \/ MainConnectFailed
    \/ MainCheck
    \/ MainAskConfirm
    \/ MainUnknown
    \/ ReadConfirm1
    \/ ReadConfirm2
    \/ ConfirmEOF
    \/ BackupFetchOk
    \/ BackupFetchFail
    \/ TruncCatalogOk
    \/ TruncCatalogFail
    \/ TruncateOk
    \/ TruncateFail
    \/ TruncExcept
    \/ ResetExcept
    \/ SeedInsertOk
    \/ SeedInsertFail
    \/ SeedImportFail
    \/ MainExcept
    \/ MainFinally

Spec == Init /\ [][Next]_vars

\* connect(retries, base_delay) on its own, for every bounded pair of arguments
InitConnect ==
    /\ argv = <<S_check>>
    /\ env = [public |-> <<>>, internal |-> <<P_plain \o HostB>>]
    /\ catalog = <<>>
    /\ rows = InitialRows(catalog, 0)
    /\ pc = "connect"
    /\ action = S_check
    /\ database_url = P_plain \o HostB
    /\ hasConn = FALSE
    /\ connOpen = FALSE
    /\ retries \in 0..MaxRetries
    /\ base_delay \in 0..MaxBaseDelay
    /\ attempt = 1
    /\ connResult = "none"
    /\ sleeps = <<>>
    /\ gate = "idle"
    /\ inputs = <<>>
    /\ bidx = 0
    /\ backup = EmptyDict
    /\ backupResult = <<>>
    /\ table_names = <<>>
    /\ tidx = 0
    /\ log = <<>>
    /\ out = <<>>
    /\ closeCalls = 0
    /\ raised = {}

NextConnect == ConnectOk \/ ConnectFail \/ ConnectWake \/ ConnectGiveUp

SpecConnect == InitConnect /\ [][NextConnect]_vars

\* connection strings: each scheme, followed by a plain remainder or by a
\* remainder that itself contains a driver-qualified scheme (a query parameter)
UrlSchemes == {P_asyncpg, P_psycopg2, P_plain, <<>>}

UrlRests ==
    { HostA,
      HostA \o <<"?", "x", "=">> \o P_asyncpg \o <<"h">>,
      HostB \o <<"?", "x", "=">> \o P_psycopg2 \o <<"h">> }

UrlPool == {p \o r : p \in UrlSchemes, r \in UrlRests}

\* DatabaseReset() and connect() for every bounded environment
InitUrl ==
    /\ argv = <<S_check>>
    /\ env \in {[public |-> p, internal |-> i] :
                   p \in {<<>>} \cup {<<u>> : u \in UrlPool},
                   i \in {<<>>, <<P_psycopg2 \o HostB>>}}
    /\ catalog = <<>>
    /\ rows = InitialRows(catalog, 0)
    /\ pc = "start"
    /\ action = <<>>
    /\ database_url = <<>>
    /\ hasConn = FALSE
    /\ connOpen = FALSE
    /\ retries = DefaultRetries
    /\ base_delay = DefaultBaseDelay
    /\ attempt = 0
    /\ connResult = "none"
    /\ sleeps = <<>>
    /\ gate = "idle"
    /\ inputs = <<>>
    /\ bidx = 0
    /\ backup = EmptyDict
    /\ backupResult = <<>>
    /\ table_names = <<>>
    /\ tidx = 0
    /\ log = <<>>
    /\ out = <<>>
    /\ closeCalls = 0
    /\ raised = {}

NextUrl ==
    \/ MainConstructFail
    \/ MainConstruct
    \/ ConnectOk
    \/ ConnectFail
    \/ ConnectWake
    \/ ConnectGiveUp

SpecUrl == InitUrl /\ [][NextUrl]_vars

(* --------------------------- drop_all_tables ---------------------------- *)
\* what drop_all_tables and create_tables leave alone
schemaFrame == <<argv, env, action, database_url, hasConn, connOpen, connectVars,
                 gateVars, backupVars, closeCalls>>

\* the for loop from position i: entries that fail re.match are skipped
RECURSIVE DropNext(_, _)
DropNext(names, i) ==
    IF i > Len(names) THEN i
    ELSE IF ReMatchIdent(names[i]) THEN i
    ELSE DropNext(names, i + 1)

\* the catalog query succeeds; the loop runs up to its first DROP
DropCatalogOk ==
    /\ pc = "drop_catalog"
    /\ log' = Append(log, Call("catalog", <<>>, TRUE))
    /\ table_names' = catalog
    /\ LET first == DropNext(catalog, 1)
       IN  /\ tidx' = first
           /\ IF catalog = <<>>
              THEN /\ out' = Append(out, "no_tables")
                   /\ pc' = "returned"
              ELSE IF first > Len(catalog)
              THEN /\ out' = Append(out, "all_dropped")
                   /\ pc' = "returned"
              ELSE /\ out' = out
                   /\ pc' = "drop"
    /\ UNCHANGED <<schemaFrame, dbVars, raised>>

\* the catalog query raises: the outer handler prints and re-raises
DropCatalogFail ==
    /\ pc = "drop_catalog"
    /\ log' = Append(log, Call("catalog", <<>>, FALSE))
    /\ pc' = "drop_except"
    /\ UNCHANGED <<schemaFrame, dbVars, truncVars, out, raised>>

\* where the loop stands after the DROP at tidx: at the next DROP, or done
DropAdvance(msg) ==
    LET next == DropNext(table_names, tidx + 1)
    IN  /\ tidx' = next
        /\ IF next > Len(table_names)
           THEN /\ out' = Append(Append(out, msg), "all_dropped")
                /\ pc' = "returned"
           ELSE /\ out' = Append(out, msg)
                /\ pc' = "drop"

\* DROP TABLE IF EXISTS "t" CASCADE succeeds: the table is gone
DropOk ==
    /\ pc = "drop"
    /\ LET t == table_names[tidx]
       IN  /\ log' = Append(log, Call("drop", t, TRUE))
           /\ catalog' = SelectSeq(catalog, LAMBDA u : u # t)
           /\ rows' = [u \in DOMAIN rows \ {t} |-> rows[u]]
    /\ DropAdvance("dropped")
    /\ UNCHANGED <<schemaFrame, table_names, raised>>

\* variant: a failed DROP ends the loop through the outer handler
DropFailAborts ==
    /\ pc = "drop"
    /\ log' = Append(log, Call("drop", table_names[tidx], FALSE))
    /\ out' = Append(out, "drop_error")
    /\ pc' = "drop_except"
    /\ UNCHANGED <<schemaFrame, dbVars, truncVars, raised>>

\* a DROP raises: the inner handler prints and the loop goes on
DropFail ==
    /\ pc = "drop"
    /\ log' = Append(log, Call("drop", table_names[tidx], FALSE))
    /\ DropAdvance("drop_error")
    /\ UNCHANGED <<schemaFrame, dbVars, table_names, raised>>

\* except Exception as e: print; raise
DropExcept ==
    /\ pc = "drop_except"
    /\ out' = Append(out, "drop_tables_error")
    /\ raised' = raised \cup {"drop_all_tables"}
    /\ pc' = "raised_out"
    /\ UNCHANGED <<schemaFrame, dbVars, truncVars, log>>

(* ---------------------------- create_tables ----------------------------- *)
\* the five CREATE TABLE statements, in order
CreateTables == <<S_usuarios, S_produtos, S_clientes, S_vendas, S_itens_venda>>

\* CREATE TABLE t succeeds (t must not exist yet): it is committed at once
CreateOk ==
    /\ pc = "create"
    /\ LET t == CreateTables[tidx]
       IN  /\ t \notin DOMAIN rows
           /\ log' = Append(log, Call("create", t, TRUE))
           /\ catalog' = Append(catalog, t)
           /\ rows' = (t :> {}) @@ rows
    /\ IF tidx = Len(CreateTables)
       THEN /\ out' = Append(Append(out, "created"), "all_created")
            /\ pc' = "returned"
            /\ tidx' = tidx
       ELSE /\ out' = Append(out, "created")
            /\ pc' = "create"
            /\ tidx' = tidx + 1
    /\ UNCHANGED <<schemaFrame, table_names, raised>>

\* CREATE TABLE raises (the table exists already, or the statement fails)
CreateFail ==
    /\ pc = "create"
    /\ log' = Append(log, Call("create", CreateTables[tidx], FALSE))
    /\ pc' = "create_except"
    /\ UNCHANGED <<schemaFrame, dbVars, truncVars, out, raised>>

\* variant: the handler prints and does not re-raise
CreateExceptSwallow ==
    /\ pc = "create_except"
    /\ out' = Append(out, "create_error")
    /\ pc' = "returned"
    /\ UNCHANGED <<schemaFrame, dbVars, truncVars, log, raised>>

\* except Exception as e: print; raise
CreateExcept ==
    /\ pc = "create_except"
    /\ out' = Append(out, "create_error")
    /\ raised' = raised \cup {"create_tables"}
    /\ pc' = "raised_out"
    /\ UNCHANGED <<schemaFrame, dbVars, truncVars, log>>

\* drop_all_tables or create_tables called on an open connection (main never
\* calls them), for every bounded schema
InitSchema ==
    /\ argv = <<>>
    /\ env = [public |-> <<>>, internal |-> <<P_plain \o HostB>>]
    /\ catalog \in CatalogPool
    /\ \E n \in 0..MaxRows : rows = InitialRows(catalog, n)
    /\ pc \in {"drop_catalog", "create"}
    /\ action = <<>>
    /\ database_url = P_plain \o HostB
    /\ hasConn = TRUE
    /\ connOpen = TRUE
    /\ retries = DefaultRetries
    /\ base_delay = DefaultBaseDelay
    /\ attempt = 1
    /\ connResult = "true"
    /\ sleeps = <<>>
    /\ gate = "idle"
    /\ inputs = <<>>
    /\ bidx = 0
    /\ backup = EmptyDict
    /\ backupResult = <<>>
    /\ table_names = <<>>
    /\ tidx = IF pc = "create" THEN 1 ELSE 0
    /\ log = <<>>
    /\ out = <<>>
    /\ closeCalls = 0
    /\ raised = {}

NextSchema ==
    \/ DropCatalogOk
    \/ DropCatalogFail
    \/ DropOk
    \/ DropFail
    \/ DropExcept
    \/ CreateOk
    \/ CreateFail
    \/ CreateExcept

SpecSchema == InitSchema /\ [][NextSchema]_vars

(* ======================================================================= *)
(*                              properties                                 *)
(* ======================================================================= *)
Indices(ops) == {i \in DOMAIN log : log[i].op \in ops}

\* no TRUNCATE, DROP or INSERT was issued
NoMutation == Indices({"truncate", "drop", "insert"}) = {}

\* no statement at all was issued on the connection
NoStatement == Indices({"fetch", "catalog", "truncate", "drop", "insert"}) = {}

ConnectAttempted == Indices({"connect"}) # {}

Printed(m) == \E i \in DOMAIN out : out[i] = m

HasArgument == Len(argv) >= 1

GateDecided == gate \in {"confirmed", "aborted"}

\* C2, as stated: the gate proceeds for the inputs ("CONFIRMO", "SIM") and
\* aborts, with no mutation, for any other inputs.
C2_OnlyExactPairProceeds ==
    GateDecided =>
        /\ (gate = "confirmed") <=> (inputs = <<S_CONFIRMO, S_SIM>>)
        /\ gate = "aborted" => NoMutation

\* C2, amended: the gate proceeds exactly when the first input, with leading
\* and trailing whitespace removed, is "CONFIRMO" and the second, likewise, is
\* "SIM" (compared case-sensitively); for any other inputs it aborts and no
\* TRUNCATE, DROP or INSERT is issued.
C2_StrippedPairProceeds ==
    LET first == Len(inputs) >= 1 /\ Strip(inputs[1]) = S_CONFIRMO
        second == Len(inputs) = 2 /\ Strip(inputs[2]) = S_SIM
    IN  /\ (gate = "confirmed") <=> (first /\ second)
        /\ (gate = "aborted") <=>
              \/ Len(inputs) >= 1 /\ ~first
              \/ Len(inputs) = 2 /\ ~second
        /\ gate = "aborted" => NoMutation
        /\ Len(inputs) <= 2

C2_Witness ==
    /\ gate = "confirmed"
    /\ inputs # <<S_CONFIRMO, S_SIM>>
    /\ ~NoMutation

(* ------------------------------- C3 ------------------------------------ *)
RunEnded == pc \in {"done", "crashed"}

\* C3, as stated: every run of main invokes close exactly once.
C3_EveryRunClosesOnce == RunEnded => closeCalls = 1

\* C3, amended: every run of main that gets past the argument check and the
\* construction of DatabaseReset invokes close exactly once, also when the
\* truncate step raises, and no run ends with the connection open; a run with
\* no argument, or with no connection string configured, never invokes close
\* (and never connected).
C3_ClosedOncePastConstruction ==
    /\ closeCalls <= 1
    /\ Cardinality(Indices({"close"})) <= 1
    /\ (pc = "done" /\ HasArgument) =>
          /\ closeCalls = 1
          /\ hasConn => Cardinality(Indices({"close"})) = 1
    /\ RunEnded => ~connOpen
    /\ (RunEnded /\ (~HasArgument \/ pc = "crashed")) =>
          (closeCalls = 0 /\ ~hasConn)

C3_Witness ==
    /\ pc = "done"
    /\ "truncate_all_tables" \in raised
    /\ closeCalls = 1
    /\ ~connOpen

(* ------------------------------- C4 ------------------------------------ *)
SuccessReported == Printed("reset_ok") \/ Printed("data_ok")

\* C4: after a destructive workflow has returned without raising and has
\* reported success, usuarios holds exactly one row: login "Neotrix", admin,
\* and a password field that is not the plaintext seed password.
C4_OneAdminAfterSuccess ==
    SuccessReported =>
        /\ S_usuarios \in DOMAIN rows
        /\ Cardinality(rows[S_usuarios]) = 1
        /\ \A r \in rows[S_usuarios] :
              /\ r.usuario = S_Neotrix
              /\ r.is_admin
              /\ r.senha_hash # S_842384

(* ------------------------------- C5 ------------------------------------ *)
\* the pattern ^[A-Za-z_][A-Za-z0-9_]*$ stated on its own: an identifier,
\* or an identifier followed by one final newline ($ matches before it)
PatternFirst == Range(UpperChars) \cup Range(LowerChars) \cup {"_"}
PatternRest == PatternFirst \cup Range(DigitChars)

IsIdentifier(s) ==
    /\ Len(s) >= 1
    /\ s[1] \in PatternFirst
    /\ \A i \in 2..Len(s) : s[i] \in PatternRest

MatchesPattern(s) ==
    \/ IsIdentifier(s)
    \/ Len(s) >= 2 /\ s[Len(s)] = "\n" /\ IsIdentifier(SubSeq(s, 1, Len(s) - 1))

\* the names TRUNCATE was issued for, in order
RECURSIVE ArgsOf(_)
ArgsOf(calls) ==
    IF calls = <<>> THEN <<>> ELSE <<Head(calls).arg>> \o ArgsOf(Tail(calls))

Truncated == ArgsOf(SelectSeq(log, LAMBDA c : c.op = "truncate"))

\* truncate_all_tables has returned normally
TruncateReturned == Printed("no_tables") \/ Printed("all_removed")

\* C5, as stated: on a schema of N tables, not counting alembic_version,
\* truncate_all_tables issues exactly N TRUNCATE statements.
C5_OneTruncatePerTable ==
    TruncateReturned =>
        Len(Truncated) = Len(SelectSeq(catalog, LAMBDA t : t # S_alembic_version))

\* C5, amended: truncate_all_tables that returns normally has issued exactly
\* one TRUNCATE for each catalog entry that is not alembic_version and whose
\* name matches the pattern, in catalog order, so N counts the matching names
\* only; an entry whose name does not match is skipped and never interpolated,
\* alembic_version is never truncated, and when a statement fails the
\* statements issued are a prefix of that list.
C5_OneTruncatePerMatchingTable ==
    LET expected == SelectSeq(catalog,
                        LAMBDA t : t # S_alembic_version /\ MatchesPattern(t))
        issued == Truncated
    IN  /\ Len(issued) <= Len(expected)
        /\ issued = SubSeq(expected, 1, Len(issued))
        /\ TruncateReturned => issued = expected
        /\ \A k \in DOMAIN issued :
              MatchesPattern(issued[k]) /\ issued[k] # S_alembic_version

C5_Witness ==
    /\ TruncateReturned
    /\ \E i \in DOMAIN catalog : ~MatchesPattern(catalog[i])
    /\ Len(Truncated) >= 2
    /\ Len(Truncated) < Len(catalog)

(* ------------------------------- C6 ------------------------------------ *)
\* the catalog query or a TRUNCATE of truncate_all_tables has failed
TruncateFailedAt(i) ==
    i \in DOMAIN log /\ log[i].op \in {"catalog", "truncate"} /\ ~log[i].ok

\* C6: a failure in truncate_all_tables is fatal: after it no further table is
\* truncated and the seeder never runs; the exception leaves
\* truncate_all_tables and then reset_complete / reset_data_only, is caught by
\* main, and the run ends with the connection closed.
C6_TruncateFailureIsFatal ==
    \A i \in DOMAIN log : TruncateFailedAt(i) =>
        /\ \A j \in DOMAIN log : j > i => log[j].op = "close"
        /\ Indices({"insert"}) = {}
        /\ ~Printed("admin_created") /\ ~Printed("admin_error")
        /\ ~Printed("reset_ok") /\ ~Printed("data_ok")
        /\ pc \in {"trunc_except", "reset_except", "main_except", "finally", "done"}
        /\ pc # "trunc_except" => "truncate_all_tables" \in raised
        /\ pc \in {"main_except", "finally", "done"} => "reset" \in raised
        /\ "main" \notin raised
        /\ pc = "done" => (closeCalls = 1 /\ ~connOpen /\ log[Len(log)].op = "close")

C6_Witness ==
    /\ pc = "done"
    /\ \E i \in DOMAIN log : TruncateFailedAt(i) /\ log[i].op = "truncate"
    /\ \E j \in DOMAIN log : log[j].op = "truncate" /\ log[j].ok
    /\ \E t \in DOMAIN rows : rows[t] # {}

(* ------------------------------- C7 ------------------------------------ *)
\* C7: what backup_data returns holds the rows of every table whose fetch
\* succeeded, whichever other table failed.
C7_BackupKeepsFetchedTables ==
    backupResult # <<>> =>
        \A i \in DOMAIN log : (log[i].op = "fetch" /\ log[i].ok) =>
            /\ log[i].arg \in DOMAIN backupResult[1]
            /\ backupResult[1][log[i].arg] = backup[log[i].arg]

(* ------------------------------- C8 ------------------------------------ *)
Unrecognized ==
    HasArgument /\ Lower(argv[1]) \notin {S_check, S_complete, S_data}

IsCheck == HasArgument /\ Lower(argv[1]) = S_check

\* C9: the check workflow issues no INSERT, TRUNCATE or DROP (indeed no
\* statement at all) and reads no confirmation input, whatever the connection
\* attempts yield: it connects, reports and closes.
C9_CheckOnlyConnects ==
    IsCheck =>
        /\ NoMutation
        /\ \A i \in DOMAIN log : log[i].op \in {"connect", "close"}
        /\ inputs = <<>> /\ gate = "idle"
        /\ \E n \in 0..MaxRows : rows = InitialRows(catalog, n)
        /\ (pc = "done" /\ connResult = "true") =>
              /\ Printed("check_ok")
              /\ log[Len(log)].op = "close"
              /\ ~connOpen

C9_Witness ==
    /\ IsCheck
    /\ argv[1] # S_check
    /\ pc = "done"
    /\ connResult = "true"

(* ------------------------------- C10 ----------------------------------- *)
Attempts == Cardinality(Indices({"connect"}))
FailedAttempts == Cardinality({i \in Indices({"connect"}) : ~log[i].ok})
Min(a, b) == IF a <= b THEN a ELSE b

\* C10: connect makes at most `retries` attempts and stops at the first
\* success; after failed attempt k < retries it waits base_delay * k before
\* the next attempt and it does not wait after the last one, so a total
\* failure is exactly `retries` attempts and retries - 1 waits (none when
\* retries is 0).
C10_BoundedRetriesLinearBackoff ==
    /\ Attempts <= retries
    /\ \A i \in DOMAIN log : i < Len(log) => ~log[i].ok
    /\ sleeps = [k \in 1..Min(FailedAttempts, retries - 1) |-> base_delay * k]
    /\ connResult = "true" => (log[Len(log)].ok /\ Attempts = FailedAttempts + 1)
    /\ connResult = "false" =>
          /\ Attempts = retries
          /\ FailedAttempts = retries
          /\ Len(sleeps) = (IF retries >= 1 THEN retries - 1 ELSE 0)
    /\ (pc = "connect" /\ connResult = "none" /\ attempt <= retries) =>
          (Attempts = attempt - 1 /\ Len(sleeps) = attempt - 1)

C10_Witness ==
    /\ connResult = "false"
    /\ retries = DefaultRetries
    /\ base_delay = DefaultBaseDelay
    /\ sleeps = <<DefaultBaseDelay, 2 * DefaultBaseDelay>>
(* ------------------------------- C11 ----------------------------------- *)
\* C11: when every connection attempt has failed, connect returns False
\* without raising and main aborts: no confirmation is read, no statement is
\* issued, no exception escapes main (or is raised at all), and close, called
\* once, does nothing because no connection was ever opened.
C11_ConnectFailureAborts ==
    connResult = "false" =>
        /\ FailedAttempts = retries /\ Attempts = retries
        /\ raised = {}
        /\ inputs = <<>> /\ gate = "idle"
        /\ NoStatement
        /\ ~hasConn /\ ~connOpen
        /\ Indices({"close"}) = {} /\ ~Printed("closed")
        /\ pc \in {"after_connect", "finally", "done"}
        /\ pc = "done" => closeCalls = 1

C11_Witness ==
    /\ connResult = "false"
    /\ pc = "done"
    /\ WorkflowOf(action) = "complete"
    /\ closeCalls = 1

(* ------------------------------- C12 ----------------------------------- *)
\* an environment variable is missing: unset, or set to the empty string
Missing(v) == v = <<>> \/ v = << <<>> >>

\* C12: when DATABASE_PUBLIC_URL and DATABASE_URL are both missing, no
\* connection attempt and no wait ever happens, and a run that reaches the
\* construction of DatabaseReset ends there with the configuration error.
C12_MissingConfigNoNetwork ==
    (Missing(env.public) /\ Missing(env.internal)) =>
        /\ log = <<>> /\ sleeps = <<>>
        /\ attempt = 0 /\ connResult = "none"
        /\ pc \in {"start", "done", "crashed"}
        /\ (HasArgument /\ pc # "start") => (pc = "crashed" /\ "__init__" \in raised)

C12_Witness ==
    /\ env.public = << <<>> >>
    /\ env.internal = <<>>
    /\ pc = "crashed"

(* ------------------------------- C13 ----------------------------------- *)
\* C13: a failure inside create_admin_user is printed and never aborts the
\* workflow: no exception leaves create_admin_user or the enclosing reset,
\* the reset returns normally (it prints its summary) and the run goes on to
\* close the connection.
C13_SeedFailureNotFatal ==
    /\ "create_admin_user" \notin raised
    /\ Printed("admin_error") =>
          /\ "reset" \notin raised /\ "main" \notin raised
          /\ SuccessReported
          /\ pc \in {"finally", "done"}
          /\ pc = "done" => (closeCalls = 1 /\ ~connOpen /\ log[Len(log)].op = "close")

C13_Witness ==
    /\ Printed("admin_error")
    /\ pc = "done"
    /\ \E i \in DOMAIN log : log[i].op = "insert" /\ ~log[i].ok
(* ------------------------------- C14 ----------------------------------- *)
\* the statements issued on the connection, in order
Statements == SelectSeq(log, LAMBDA c : c.op \notin {"connect", "close"})

\* the TRUNCATEs a run issues when none fails
AllTruncates ==
    SelectSeq(catalog, LAMBDA t : t # S_alembic_version /\ MatchesPattern(t))

\* the statements are those one fixed sequence dictates, whatever the
\* workflow: the fetches of the backup tables in order, up to the first that
\* fails; then the catalog query; then the TRUNCATEs in catalog order, up to
\* the first that fails; then, only after all of them succeeded, the INSERT
CanonicalStatements(st) ==
    LET nf == Cardinality({k \in DOMAIN st : st[k].op = "fetch"})
        all == AllTruncates
    IN  /\ nf <= Len(BackupTables)
        /\ \A k \in 1..nf :
              /\ st[k].op = "fetch"
              /\ st[k].arg = BackupTables[k]
              /\ k < nf => st[k].ok
        /\ Len(st) > nf =>
              /\ nf >= 1
              /\ nf = Len(BackupTables) \/ ~st[nf].ok
              /\ st[nf + 1].op = "catalog"
        /\ \A k \in (nf + 2)..Len(st) :
              /\ st[k].op \in {"truncate", "insert"}
              /\ st[k - 1].ok
              /\ st[k].op = "truncate" =>
                    (k - nf - 1 <= Len(all) /\ st[k].arg = all[k - nf - 1])
              /\ st[k].op = "insert" =>
                    (k = Len(st) /\ k - nf - 2 = Len(all) /\ st[k].arg = S_usuarios)

\* the tables are what the statements made of them: emptied by a successful
\* TRUNCATE (with the tables that reference it), plus the admin row after a
\* successful INSERT, and otherwise as they were; no table appears or vanishes
CanonicalTables(st) ==
    LET emptied == UNION {CascadeSet(st[k].arg) :
                            k \in {j \in DOMAIN st : st[j].op = "truncate" /\ st[j].ok}}
        seeded == \E k \in DOMAIN st : st[k].op = "insert" /\ st[k].ok
    IN  /\ DOMAIN rows = Range(catalog)
        /\ \E n \in 0..MaxRows : \A t \in DOMAIN rows :
              LET before == IF t \in emptied THEN {} ELSE InitialRows(catalog, n)[t]
              IN  IF seeded /\ t = S_usuarios
                  THEN \E salt \in SaltPool : rows[t] = before \cup {AdminRow(salt)}
                  ELSE rows[t] = before

\* C14: the data workflow performs the same steps as the complete workflow:
\* the two bodies await the same methods in the same order, so for the same
\* inputs and the same pattern of failures a run of either issues the same
\* statements (backup fetches, then the truncates, then the admin insert) and
\* leaves the same tables; neither issues a DROP or a CREATE.
C14_DataSameAsComplete ==
    /\ ResetBody("data") = ResetBody("complete")
    /\ Indices({"drop", "create"}) = {}
    /\ CanonicalStatements(Statements)
    /\ CanonicalTables(Statements)
    /\ Statements # <<>> => (gate = "confirmed" /\ WorkflowOf(action) \in {"complete", "data"})

C14_Witness ==
    /\ WorkflowOf(action) = "data"
    /\ pc = "done"
    /\ \E k \in DOMAIN log : log[k].op = "fetch" /\ ~log[k].ok
    /\ \E k \in DOMAIN log : log[k].op = "insert" /\ log[k].ok
(* ------------------------------- C15 ----------------------------------- *)
\* the configured string with a driver-qualified scheme at its start
\* replaced by postgresql:// and everything after the scheme kept
SchemeNormalized(u) ==
    IF StartsWith(u, P_asyncpg)
    THEN P_plain \o SubSeq(u, Len(P_asyncpg) + 1, Len(u))
    ELSE IF StartsWith(u, P_psycopg2)
    THEN P_plain \o SubSeq(u, Len(P_psycopg2) + 1, Len(u))
    ELSE u

\* C15: the string passed to the driver is the configured string with a
\* leading postgresql+asyncpg:// or postgresql+psycopg2:// normalized to
\* postgresql:// and the rest unchanged; a string with neither prefix is
\* passed unchanged.
C15_SchemeNormalizedRestKept ==
    \A i \in Indices({"connect"}) : log[i].arg = SchemeNormalized(ResolveUrl(env))
(* ------------------------------- C16 ----------------------------------- *)
\* C16: in every confirmed run the backup comes first: every fetch precedes
\* the catalog query and every TRUNCATE, and none of these is issued without
\* a fetch before it; once backup_data has returned, whatever it returned
\* (the empty dict after a failed fetch included), control is in
\* truncate_all_tables or past it, and no error of a fetch leaves backup_data.
C16_BackupNeverBlocksTruncate ==
    /\ \A i \in Indices({"catalog", "truncate"}) :
          /\ \E j \in Indices({"fetch"}) : j < i
          /\ \A j \in Indices({"fetch"}) : j < i
    /\ gate = "confirmed" => (pc = "backup" \/ backupResult # <<>>)
    /\ backupResult # <<>> => (pc = "trunc_catalog" \/ Indices({"catalog"}) # {})
    /\ "backup_data" \notin raised
    /\ (\E j \in Indices({"fetch"}) : ~log[j].ok) =>
          (backupResult = <<EmptyDict>> /\ pc # "backup")

C16_Witness ==
    /\ backupResult = <<EmptyDict>>
    /\ \E j \in Indices({"fetch"}) : ~log[j].ok
    /\ \E i \in Indices({"truncate"}) : log[i].ok
(* ---------------------------------- C17 --------------------------------- *)
\* the DROP statements issued so far, and the tables they named, in order
Drops == SelectSeq(log, LAMBDA c : c.op = "drop")
DropTargets == ArgsOf(Drops)
\* the entries of the fetched catalog listing whose names match the pattern
DropExpected == SelectSeq(table_names, MatchesPattern)

\* C17: in drop_all_tables a failed DROP is logged and the loop goes on:
\* the DROP attempts always follow the matching names of the catalog listing
\* in order, one attempt per name whatever the earlier attempts did, never
\* a non-matching name; when the function returns every matching name has had
\* its attempt, as many errors are printed as attempts failed, and the
\* function raises only when the catalog query itself failed
C17_EveryMatchingTableOneDrop ==
    /\ Len(DropTargets) <= Len(DropExpected)
    /\ \A k \in 1..Len(DropTargets) : DropTargets[k] = DropExpected[k]
    /\ \A k \in 1..Len(DropTargets) : \A m \in 1..Len(DropTargets) :
          DropTargets[k] = DropTargets[m] => k = m
    /\ \A k \in 1..Len(DropTargets) : MatchesPattern(DropTargets[k])
    /\ (pc = "returned" /\ Indices({"catalog"}) # {}) => DropTargets = DropExpected
    /\ pc = "drop" => Len(DropTargets) < Len(DropExpected)
    /\ Len(SelectSeq(out, LAMBDA m : m = "drop_error"))
          = Len(SelectSeq(Drops, LAMBDA c : ~c.ok))
    /\ "drop_all_tables" \in raised => Drops = <<>>

\* a DROP failed, a later DROP was still attempted, and the function returned
C17_Witness ==
    /\ pc = "returned"
    /\ \E i \in Indices({"drop"}) : \E j \in Indices({"drop"}) :
          i < j /\ ~log[i].ok /\ log[j].ok
    /\ \E k \in 1..Len(table_names) : ~MatchesPattern(table_names[k])
(* ---------------------------------- C18 --------------------------------- *)
\* the CREATE TABLE statements issued so far, and the tables they created
Creates == SelectSeq(log, LAMBDA c : c.op = "create")
Created == {Creates[k].arg : k \in {j \in DOMAIN Creates : Creates[j].ok}}
CreateEnded == pc \in {"returned", "raised_out"} /\ Creates # <<>>

\* C18 as stated: once create_tables has returned or raised, either all five
\* tables exist or none of the tables it creates exist
C18_AllFiveOrNone ==
    CreateEnded =>
        \/ Range(CreateTables) \subseteq Range(catalog)
        \/ Created = {}

\* C18: a failure of any CREATE TABLE in create_tables is fatal, but nothing
\* is rolled back: the statements are issued in the fixed order, none is
\* issued after the first failure, the failure is re-raised to the caller,
\* the tables of the statements that succeeded before it still exist, and
\* after a normal return all five tables exist
C18_FailureFatalPrefixRemains ==
    /\ Len(Creates) <= Len(CreateTables)
    /\ \A k \in DOMAIN Creates : Creates[k].arg = CreateTables[k]
    /\ \A k \in DOMAIN Creates : k < Len(Creates) => Creates[k].ok
    /\ Created \subseteq Range(catalog)
    /\ (Creates # <<>> /\ ~Creates[Len(Creates)].ok) =>
          /\ pc \in {"create_except", "raised_out"}
          /\ ~Printed("all_created")
          /\ pc = "raised_out" => "create_tables" \in raised
    /\ "create_tables" \in raised =>
          /\ pc = "raised_out"
          /\ Creates # <<>> /\ ~Creates[Len(Creates)].ok
    /\ (pc = "returned" /\ Creates # <<>>) =>
          /\ Created = Range(CreateTables)
          /\ Printed("all_created")

\* the third CREATE failed and was re-raised; usuarios and produtos remain
C18_Witness ==
    /\ pc = "raised_out"
    /\ "create_tables" \in raised
    /\ Len(Creates) = 3
    /\ Created = {S_usuarios, S_produtos}
    /\ Created \subseteq Range(catalog)
    /\ S_clientes \notin Range(catalog)
(* ---------------------------------- C19 --------------------------------- *)
\* the connections opened and the close calls that reached a connection
Opened == {i \in Indices({"connect"}) : log[i].ok}
Closed == Indices({"close"})
StatementIndices == Indices({"fetch", "catalog", "truncate", "drop", "insert"})

\* C19: a run opens at most one connection, that connection is open exactly
\* from its successful connect until close, and every statement (fetch,
\* catalog query, TRUNCATE, INSERT) is issued after the successful connect
\* and before close; nothing, not even a connect, follows close
C19_OneConnectionStatementsWhileOpen ==
    /\ Cardinality(Opened) <= 1
    /\ Cardinality(Closed) <= 1
    /\ connOpen <=> (Opened # {} /\ Closed = {})
    /\ hasConn <=> Opened # {}
    /\ \A i \in StatementIndices :
          /\ \E j \in Opened : j < i
          /\ \A j \in Closed : i < j
    /\ \A j \in Closed :
          /\ j = Len(log)
          /\ \E i \in Opened : i < j
    /\ \A i \in Opened : \A j \in Indices({"connect"}) : j <= i
    /\ pc \in {"backup", "trunc_catalog", "truncate", "seed"} => connOpen

\* a run that connected after a failed attempt, issued statements up to the
\* INSERT and closed the connection
C19_Witness ==
    /\ pc = "done"
    /\ ~connOpen
    /\ Closed # {}
    /\ Indices({"truncate"}) # {}
    /\ Indices({"insert"}) # {}
    /\ \E j \in Indices({"connect"}) : ~log[j].ok
(* ---------------------------------- C20 --------------------------------- *)
\* what the inputs read so far say about the stage the gate is in
GateStages ==
    /\ Len(inputs) <= 2
    /\ gate \in {"idle", "unconfirmed"} => inputs = <<>>
    /\ gate = "first-confirmed" => Len(inputs) = 1
    /\ gate = "confirmed" => Len(inputs) = 2
    /\ gate = "aborted" => Len(inputs) \in {1, 2}
    /\ Len(inputs) = 2 => Strip(inputs[1]) = S_CONFIRMO
    /\ (gate = "aborted" /\ Strip(inputs[1]) # S_CONFIRMO) => Len(inputs) = 1
    /\ pc = "confirm2" => gate = "first-confirmed"

\* one step of the gate: inputs are read one at a time, in order, the first
\* only when unconfirmed and the second only when first-confirmed; confirmed
\* is entered from first-confirmed only; confirmed and aborted are final
GateStep ==
    /\ \/ inputs' = inputs
       \/ /\ Len(inputs') = Len(inputs) + 1
          /\ SubSeq(inputs', 1, Len(inputs)) = inputs
          /\ gate = (IF inputs = <<>> THEN "unconfirmed" ELSE "first-confirmed")
          /\ gate' # gate
    /\ gate' = "confirmed" => gate \in {"first-confirmed", "confirmed"}
    /\ gate' = "first-confirmed" => gate \in {"unconfirmed", "first-confirmed"}
    /\ gate \in {"confirmed", "aborted"} => gate' = gate
    /\ gate' # gate => inputs' # inputs \/ gate = "idle"

\* C20: the Confirmation Gate reads its inputs in order and stops at the
\* first mismatch: the second input is read only after the first matched, a
\* run reads at most two inputs, an abort at the first stage has read exactly
\* one, and confirmed is reached only from first-confirmed
C20_GateReadsInOrderStopsAtMismatch == [] GateStages /\ [][GateStep]_vars

\* the gate aborted at its first stage: one input read, and the run ended
C20_Witness ==
    /\ gate = "aborted"
    /\ Len(inputs) = 1
    /\ Strip(inputs[1]) # S_CONFIRMO
    /\ pc = "done"
    /\ Printed("cancelled")
====
